---- MODULE Spec2Model ----
(***************************************************************************)
(* BaseSolver of arknights_mower/utils/solver.py: the retry loop of run(), *)
(* and the scene-driven procedures login(), get_navigation() and           *)
(* back_to_index().  The recognizer and the device are collaborators: the  *)
(* scene the recognizer holds, what find() returns and what an abstract    *)
(* transition() does are inputs, chosen with \E.                           *)
(***************************************************************************)
EXTENDS Integers, Sequences, FiniteSets, TLC

\* config.MAX_RETRYTIME, the budget every retry loop starts from.
MAX_RETRYTIME == 3

\* The observation counters count up to MaxCount; MaxCount means "MaxCount or more".
MaxCount == 5

\* The counters of text inputs count up to MaxText, likewise.
MaxText == 2

(***************************************************************************)
(* recognize.Scene: the scene codes the solver compares against.           *)
(***************************************************************************)
UNKNOWN == -1
INDEX == 1
MATERIEL == 2
ANNOUNCEMENT == 3
MAIL == 4
NAVIGATION_BAR == 5
SKIP == 7
DOUBLE_CONFIRM == 8
LOGIN_MAIN == 101
LOGIN_INPUT == 102
LOGIN_QUICKLY == 103
LOGIN_LOADING == 104
LOGIN_START == 105
LOGIN_ANNOUNCE == 106
INFRA_MAIN == 201
OPERATOR_ONGOING == 603
OPERATOR_FINISH == 604
OPERATOR_ELIMINATE_FINISH == 607
LOADING == 9998
CONFIRM == 9999

Scenes ==
    { UNKNOWN, INDEX, MATERIEL, ANNOUNCEMENT, MAIL, NAVIGATION_BAR, SKIP,
      DOUBLE_CONFIRM, LOGIN_MAIN, LOGIN_INPUT, LOGIN_QUICKLY, LOGIN_LOADING,
      LOGIN_START, LOGIN_ANNOUNCE, INFRA_MAIN, OPERATOR_ONGOING,
      OPERATOR_FINISH, OPERATOR_ELIMINATE_FINISH, LOADING, CONFIRM }

\* What a perception query (recog.find, recog.nav_button, detector.*) gives:
\* a location, None, or an unexpected exception of the collaborator.
FindResults == {"found", "none", "error"}

\* What one call of the abstract transition() does.
TransitionOutcomes == {"True", "False", "RecognizeError", "StrategyError", "Exception"}

VARIABLES
    scene,      \* recog's current scene, the value self.scene() returns
    entry,      \* the operation the caller invoked: none, run, login, back_to_index
    run,        \* frame of run(): pc, retry_times, result
    bti,        \* frame of back_to_index(): pc, retry_times, result, caller, nav
    nav,        \* frame of get_navigation(): retry_times, result, taps made
    login,      \* frame of login(): pc, retry_times, result, caller
    emitted,    \* device and perception calls made by the last step, in order
    run_obs,    \* observations of run(): calls, nRE, last, streak
    bti_obs,    \* observations of back_to_index()
    login_obs,  \* observations of login()
    op          \* a primitive operation called on its own: arguments, calls made, result

vars == <<scene, entry, run, bti, nav, login, emitted, run_obs, bti_obs, login_obs, op>>

Inc(n) == IF n < MaxCount THEN n + 1 ELSE n

NavIdle == [retry_times |-> 0, result |-> FALSE, taps |-> 0]

Idle == [pc |-> "idle", retry_times |-> 0, result |-> "none", caller |-> "none"]

RunObs0 == [calls |-> 0, nRE |-> 0, last |-> "fresh", streak |-> 0]

BtiObs0 == [from_mail |-> FALSE, streak |-> 0, last |-> "fresh", sawIndex |-> FALSE]

LoginObs0 == [streak |-> 0, last |-> "fresh", nUser |-> 0, nPwd |-> 0, script |-> 0]

\* No primitive operation is under way.
OpIdle == [pc |-> "idle"]

Init ==
    /\ scene \in Scenes
    /\ entry = "none"
    /\ run = [pc |-> "idle", retry_times |-> 0, result |-> "none"]
    /\ bti = Idle
    /\ nav = NavIdle
    /\ login = Idle
    /\ emitted = <<>>
    /\ run_obs = RunObs0
    /\ bti_obs = BtiObs0
    /\ login_obs = LoginObs0
    /\ op = OpIdle

(***************************************************************************)
(* The primitives: each gives what it raises, the calls it made and        *)
(* whether it ended with recog.update.                                     *)
(***************************************************************************)
Out(exc, ev, upd) == [exc |-> exc, ev |-> ev, upd |-> upd]

\* sleep without the recog.update.
sleep_NoUpdate(interval) ==
    Out("none", << <<"sleep", interval>> >>, FALSE)

\* sleep(interval): time.sleep, then recog.update.
sleep(interval) ==
    Out("none", << <<"sleep", interval>>, <<"update", "rebuild">> >>, TRUE)

\* get_pos(poly): RecognizeError on None.
get_pos(r) == IF r = "none" THEN "RecognizeError" ELSE "none"

\* tap(poly) with the default interval 1: get_pos, device.tap, sleep.
tap(r, target) ==
    IF get_pos(r) # "none"
    THEN Out(get_pos(r), <<>>, FALSE)
    ELSE Out("none", << <<"tap", target>> >> \o sleep("1").ev, TRUE)

\* One statement after another: the second runs only if the first did not raise.
Then(o1, o2) ==
    IF o1.exc # "none"
    THEN o1
    ELSE Out(o2.exc, o1.ev \o o2.ev, o1.upd \/ o2.upd)

(***************************************************************************)
(* run()                                                                   *)
(***************************************************************************)
CallRun ==
    /\ entry = "none"
    /\ entry' = "run"
    /\ run' = [pc |-> "loop", retry_times |-> MAX_RETRYTIME, result |-> "none"]
    /\ run_obs' = RunObs0
    /\ emitted' = <<>>
    /\ UNCHANGED <<scene, bti, nav, login, bti_obs, login_obs, op>>

\* while retry_times > 0: the loop ends when the budget is used up.
RunExhausted ==
    /\ run.pc = "loop"
    /\ ~(run.retry_times > 0)
    /\ run' = [run EXCEPT !.pc = "done", !.result = "returned"]
    /\ emitted' = <<>>
    /\ UNCHANGED <<scene, entry, bti, nav, login, run_obs, bti_obs, login_obs, op>>

\* while retry_times > 0: try: self.transition()
RunCallTransition ==
    /\ run.pc = "loop"
    /\ run.retry_times > 0
    /\ run' = [run EXCEPT !.pc = "transition"]
    /\ run_obs' = [run_obs EXCEPT !.calls = Inc(@)]
    /\ emitted' = <<>>
    /\ UNCHANGED <<scene, entry, bti, nav, login, bti_obs, login_obs, op>>

\* RunTry with the RecognizeError clause forgetting retry_times -= 1.
RunTry_NoDecrement(f, o) ==
    CASE o = "True" -> [f EXCEPT !.pc = "done", !.result = "returned"]
      [] o = "False" -> [f EXCEPT !.pc = "loop", !.retry_times = MAX_RETRYTIME]
      [] o = "RecognizeError" -> [f EXCEPT !.pc = "loop"]
      [] o = "StrategyError" -> [f EXCEPT !.pc = "done", !.result = "returned"]
      [] OTHER -> [f EXCEPT !.pc = "done", !.result = o]

\* RunTry with the budget reset before the break as well.
RunTry_ResetOnBreak(f, o) ==
    CASE o = "True" ->
            [f EXCEPT !.pc = "done", !.result = "returned",
                      !.retry_times = MAX_RETRYTIME]
      [] o = "False" -> [f EXCEPT !.pc = "loop", !.retry_times = MAX_RETRYTIME]
      [] o = "RecognizeError" -> [f EXCEPT !.pc = "loop", !.retry_times = @ - 1]
      [] o = "StrategyError" -> [f EXCEPT !.pc = "done", !.result = "returned"]
      [] OTHER -> [f EXCEPT !.pc = "done", !.result = o]

\* RunTry without the StrategyError clause: the error falls to the last
\* clause and is raised again.
RunTry_StrategyRaised(f, o) ==
    CASE o = "True" -> [f EXCEPT !.pc = "done", !.result = "returned"]
      [] o = "False" -> [f EXCEPT !.pc = "loop", !.retry_times = MAX_RETRYTIME]
      [] o = "RecognizeError" -> [f EXCEPT !.pc = "loop", !.retry_times = @ - 1]
      [] OTHER -> [f EXCEPT !.pc = "done", !.result = o]

\* RunTry with the reset of the budget after a pass left out.
RunTry_NoReset(f, o) ==
    CASE o = "True" -> [f EXCEPT !.pc = "done", !.result = "returned"]
      [] o = "False" -> [f EXCEPT !.pc = "loop"]
      [] o = "RecognizeError" -> [f EXCEPT !.pc = "loop", !.retry_times = @ - 1]
      [] o = "StrategyError" -> [f EXCEPT !.pc = "done", !.result = "returned"]
      [] OTHER -> [f EXCEPT !.pc = "done", !.result = o]

\* The try/except around transition(): the frame f after a call that did o.
\* True breaks out of the loop, False falls through to the reset of the
\* budget, RecognizeError costs one unit and continues, StrategyError
\* returns, anything else is raised again.
RunTry(f, o) ==
    CASE o = "True" -> [f EXCEPT !.pc = "done", !.result = "returned"]
      [] o = "False" -> [f EXCEPT !.pc = "loop", !.retry_times = MAX_RETRYTIME]
      [] o = "RecognizeError" -> [f EXCEPT !.pc = "loop", !.retry_times = @ - 1]
      [] o = "StrategyError" -> [f EXCEPT !.pc = "done", !.result = "returned"]
      [] OTHER -> [f EXCEPT !.pc = "done", !.result = o]

\* One call of transition() handled: the frame, the sleep(3) of the
\* RecognizeError clause, and what is observed of the call.
RunHandle(o) ==
    /\ run' = RunTry(run, o)
    /\ emitted' = IF o = "RecognizeError" THEN sleep("3").ev ELSE <<>>
    /\ run_obs' =
        [run_obs EXCEPT
            !.last = o,
            !.nRE = IF o = "RecognizeError" THEN Inc(@) ELSE @,
            !.streak = IF o = "RecognizeError" THEN Inc(@) ELSE 0]

\* A transition() of a subclass: it does its work on the device, the scene
\* moves, and it returns a flag or raises.
TransitionAbstract ==
    /\ run.pc = "transition"
    /\ bti.pc = "idle"
    /\ \E o \in TransitionOutcomes : RunHandle(o)
    /\ scene' \in Scenes
    /\ UNCHANGED <<entry, bti, nav, login, bti_obs, login_obs, op>>

(***************************************************************************)
(* login()                                                                 *)
(***************************************************************************)
\* is_login() without the band of 99 (loading, confirm).
is_login_NoBand99(s) == ~(s \div 100 = 1 \/ s = -1)

\* is_login(): not in the login band, not in the band of 99, not -1.
is_login(s) == ~(s \div 100 = 1 \/ s \div 100 = 99 \/ s = -1)

\* tap_element(name) with detected=False: find, then tap whatever was found.
tap_element(r, name) ==
    IF r = "error" THEN Out("Exception", <<>>, FALSE) ELSE tap(r, name)

\* input(referent, input_area): tap the area, send the text, tap (0, 0).
input(referent, area) ==
    Out("none",
        << <<"tap", area>>, <<"send_text", referent>>, <<"tap", "(0,0)">> >>,
        FALSE)

\* input_area = self.find(name); if input_area is not None: self.input(...)
find_and_input(r, referent, area) ==
    CASE r = "error" -> Out("Exception", <<>>, FALSE)
      [] r = "none" -> Out("none", <<>>, FALSE)
      [] OTHER -> input(referent, area)

\* LoginBody with the password entered before the username.
LoginBody_PasswordFirst(s, r1, r2, r3) ==
    CASE s = LOGIN_START -> tap("found", "(w//2,h-10)")
      [] s = LOGIN_QUICKLY -> tap_element(r1, "login_awake")
      [] s = LOGIN_MAIN -> tap_element(r1, "login_account")
      [] s = LOGIN_INPUT ->
            Then(find_and_input(r2, "password", "login_password"),
                 Then(find_and_input(r1, "username", "login_username"),
                      tap_element(r3, "login_button")))
      [] s = LOGIN_ANNOUNCE -> tap_element(r1, "login_iknow")
      [] s = LOGIN_LOADING -> sleep("3")
      [] s = LOADING -> sleep("3")
      [] s = CONFIRM -> tap_element(r1, "detector.confirm")
      [] OTHER -> Out("RecognizeError", <<>>, FALSE)

\* The body of login()'s try, in scene s; r1, r2, r3 are what the perception
\* queries of the branch give, in the order they are made.
LoginBody(s, r1, r2, r3) ==
    CASE s = LOGIN_START -> tap("found", "(w//2,h-10)")
      [] s = LOGIN_QUICKLY -> tap_element(r1, "login_awake")
      [] s = LOGIN_MAIN -> tap_element(r1, "login_account")
      [] s = LOGIN_INPUT ->
            Then(find_and_input(r1, "username", "login_username"),
                 Then(find_and_input(r2, "password", "login_password"),
                      tap_element(r3, "login_button")))
      [] s = LOGIN_ANNOUNCE -> tap_element(r1, "login_iknow")
      [] s = LOGIN_LOADING -> sleep("3")
      [] s = LOADING -> sleep("3")
      [] s = CONFIRM -> tap_element(r1, "detector.confirm")
      [] OTHER -> Out("RecognizeError", <<>>, FALSE)

\* The perception queries the branch of scene s makes.
LoginQueries(s) ==
    CASE s = LOGIN_INPUT -> 3
      [] s \in {LOGIN_QUICKLY, LOGIN_MAIN, LOGIN_ANNOUNCE, CONFIRM} -> 1
      [] OTHER -> 0

\* What the i-th query of a branch making n queries may give.
Asked(n, i) == IF i <= n THEN FindResults ELSE {"found"}

\* How many times the call e is in ev, added to the counter n.
Counted(n, ev, e) ==
    LET c == Cardinality({i \in DOMAIN ev : ev[i] = e})
    IN  IF n + c < MaxText THEN n + c ELSE MaxText

\* The scripted perception login-main -> login-input -> login-announce ->
\* logged in, every element found: how far the run has followed it (0 once
\* it has left the script; nUser and nPwd count only while it follows it).
ScriptNext(k, s, o, allfound, s2) ==
    CASE k = 1 /\ s = LOGIN_MAIN /\ o.exc = "none" /\ s2 = LOGIN_INPUT -> 2
      [] k = 2 /\ s = LOGIN_INPUT /\ o.exc = "none" /\ allfound /\ s2 = LOGIN_ANNOUNCE -> 3
      [] k = 3 /\ s = LOGIN_ANNOUNCE /\ o.exc = "none" /\ is_login(s2) -> 4
      [] OTHER -> 0

\* What back_to_index() sees of a step made while it is running.
BtiObserve(obs, s2) == [obs EXCEPT !.sawIndex = @ \/ s2 = INDEX]

CallLogin ==
    /\ entry = "none"
    /\ entry' = "login"
    /\ login' = [pc |-> "loop", retry_times |-> MAX_RETRYTIME, result |-> "none",
                 caller |-> "caller"]
    /\ login_obs' = [LoginObs0 EXCEPT !.script = IF scene = LOGIN_MAIN THEN 1 ELSE 0]
    /\ emitted' = <<>>
    /\ UNCHANGED <<scene, run, bti, nav, run_obs, bti_obs, op>>

\* while retry_times and not self.is_login():
LoginLoopCond(f, s) == f.retry_times # 0 /\ ~is_login(s)

\* if not self.is_login(): raise StrategyError
LoginExitResult(s) == IF ~is_login(s) THEN "StrategyError" ELSE "returned"

\* The except clauses of login(): the frame f after a body that raised exc
\* ("none": it raised nothing, and the budget is reset).
LoginTry(f, exc) ==
    CASE exc = "none" -> [f EXCEPT !.pc = "loop", !.retry_times = MAX_RETRYTIME]
      [] exc = "RecognizeError" -> [f EXCEPT !.pc = "loop", !.retry_times = @ - 1]
      [] OTHER -> [f EXCEPT !.pc = "done", !.result = exc]

\* The loop is left (budget used up, or logged in), and the final check is made.
LoginExit ==
    /\ login.pc = "loop"
    /\ ~LoginLoopCond(login, scene)
    /\ login' = [login EXCEPT !.pc = "done", !.result = LoginExitResult(scene)]
    /\ emitted' = <<>>
    /\ UNCHANGED <<scene, entry, run, bti, nav, run_obs, bti_obs, login_obs, op>>

\* The try/except of login() around a body that did o; s2 is the scene the
\* next recog.update finds.
LoginHandle(o, allfound, s2) ==
    LET ev == IF o.exc = "RecognizeError" THEN o.ev \o sleep("3").ev ELSE o.ev
        sc == IF o.upd \/ o.exc = "RecognizeError" THEN s2 ELSE scene
    IN  /\ login' = LoginTry(login, o.exc)
        /\ emitted' = ev
        /\ scene' = sc
        /\ login_obs' =
            [login_obs EXCEPT
                !.last = o.exc,
                !.streak = IF o.exc = "RecognizeError" THEN Inc(@) ELSE 0,
                !.nUser = IF ScriptNext(login_obs.script, scene, o, allfound, sc) = 0
                          THEN 0
                          ELSE Counted(@, ev, <<"send_text", "username">>),
                !.nPwd = IF ScriptNext(login_obs.script, scene, o, allfound, sc) = 0
                         THEN 0
                         ELSE Counted(@, ev, <<"send_text", "password">>),
                !.script = ScriptNext(@, scene, o, allfound, sc)]
        /\ bti_obs' = IF login.caller = "back_to_index"
                      THEN BtiObserve(bti_obs, sc)
                      ELSE bti_obs

\* One pass of the while loop of login().
LoginAttempt ==
    /\ login.pc = "loop"
    /\ LoginLoopCond(login, scene)
    /\ \E r1 \in Asked(LoginQueries(scene), 1), r2 \in Asked(LoginQueries(scene), 2),
          r3 \in Asked(LoginQueries(scene), 3), s2 \in Scenes :
          LoginHandle(LoginBody(scene, r1, r2, r3),
                      r1 = "found" /\ r2 = "found" /\ r3 = "found", s2)
    /\ UNCHANGED <<entry, run, bti, nav, run_obs, op>>

(***************************************************************************)
(* get_navigation() and back_to_index()                                    *)
(***************************************************************************)
\* self.tap(detector.xxx(self.recog.img)): the detector's point, then tap.
tap_detected(r, name) ==
    IF r = "error" THEN Out("Exception", <<>>, FALSE) ELSE tap(r, name)

\* elif self.scene() // 100 == 1: self.login(), reached when get_navigation()
\* gave a falsy result and no earlier branch took the scene.
BtiDelegatesLogin(s, navres) ==
    ~navres /\ s # ANNOUNCEMENT /\ s # MATERIEL /\ s \div 100 = 1

\* mail = self.find('mail'); mid_y = (mail[0][1] + mail[1][1]) // 2;
\* self.tap((mid_y, mid_y)): subscripting None is a TypeError.
MailBranch(r) ==
    CASE r = "error" -> Out("Exception", <<>>, FALSE)
      [] r = "none" -> Out("TypeError", <<>>, FALSE)
      [] OTHER -> tap("found", "(mid_y,mid_y)")

\* The body of back_to_index()'s try after get_navigation() gave navres, in
\* scene s (the login branch apart); r is what the branch's query gives.
BtiBody(s, navres, r) ==
    CASE navres -> tap_element(r, "nav_index")
      [] s = ANNOUNCEMENT -> tap_detected(r, "detector.announcement_close")
      [] s = MATERIEL -> tap_element(r, "materiel_ico")
      [] s = CONFIRM -> tap_detected(r, "detector.confirm")
      [] s = LOADING -> sleep("3")
      [] s = SKIP -> tap_element(r, "skip")
      [] s = OPERATOR_ONGOING -> sleep("10")
      [] s = OPERATOR_FINISH -> tap("found", "(w//2,10)")
      [] s = OPERATOR_ELIMINATE_FINISH -> tap("found", "(w//2,10)")
      [] s = DOUBLE_CONFIRM -> tap_element(r, "double_confirm")
      [] s = MAIL -> MailBranch(r)
      [] OTHER -> Out("RecognizeError", <<>>, FALSE)

BtiQueries(s, navres) ==
    IF navres \/ s \in {ANNOUNCEMENT, MATERIEL, CONFIRM, SKIP, DOUBLE_CONFIRM, MAIL}
    THEN 1
    ELSE 0

CallBackToIndex ==
    /\ entry = "none"
    /\ entry' = "back_to_index"
    /\ bti' = [pc |-> "loop", retry_times |-> MAX_RETRYTIME, result |-> "none",
               caller |-> "caller"]
    /\ bti_obs' = [BtiObs0 EXCEPT !.from_mail = scene = MAIL, !.sawIndex = scene = INDEX]
    /\ emitted' = <<>>
    /\ UNCHANGED <<scene, run, nav, login, run_obs, login_obs, op>>

\* The loop condition without the test of the scene.
BtiLoopCond_BudgetOnly(f, s) == f.retry_times # 0

\* The final check left out: back_to_index() returns whatever the scene.
BtiExitResult_NoCheck(s) == "returned"

\* BtiTry with every exception caught and retried.
BtiTry_CatchAll(f, exc) ==
    CASE exc = "none" -> [f EXCEPT !.pc = "loop", !.retry_times = MAX_RETRYTIME]
      [] OTHER -> [f EXCEPT !.pc = "loop", !.retry_times = @ - 1]

\* BtiTry with the reset of the budget after a pass left out.
BtiTry_NoReset(f, exc) ==
    CASE exc = "none" -> [f EXCEPT !.pc = "loop"]
      [] exc = "RecognizeError" -> [f EXCEPT !.pc = "loop", !.retry_times = @ - 1]
      [] OTHER -> [f EXCEPT !.pc = "done", !.result = exc]

\* while retry_times and self.scene() != Scene.INDEX:
BtiLoopCond(f, s) == f.retry_times # 0 /\ s # INDEX

\* if self.scene() != Scene.INDEX: raise StrategyError
BtiExitResult(s) == IF s # INDEX THEN "StrategyError" ELSE "returned"

\* The except clauses of back_to_index(): the frame f after a body that
\* raised exc ("none": it raised nothing, and the budget is reset).
BtiTry(f, exc) ==
    CASE exc = "none" -> [f EXCEPT !.pc = "loop", !.retry_times = MAX_RETRYTIME]
      [] exc = "RecognizeError" -> [f EXCEPT !.pc = "loop", !.retry_times = @ - 1]
      [] OTHER -> [f EXCEPT !.pc = "done", !.result = exc]

\* The loop is left (budget used up, or at the index), and the final check is made.
BtiExit ==
    /\ bti.pc = "loop"
    /\ ~BtiLoopCond(bti, scene)
    /\ bti' = [bti EXCEPT !.pc = "done", !.result = BtiExitResult(scene)]
    /\ emitted' = <<>>
    /\ UNCHANGED <<scene, entry, run, nav, login, run_obs, bti_obs, login_obs, op>>

\* A pass of the while loop starts: try: if self.get_navigation():
BtiEnter ==
    /\ bti.pc = "loop"
    /\ BtiLoopCond(bti, scene)
    /\ bti' = [bti EXCEPT !.pc = "nav"]
    /\ nav' = [retry_times |-> MAX_RETRYTIME, result |-> FALSE, taps |-> 0]
    /\ emitted' = <<>>
    /\ UNCHANGED <<scene, entry, run, login, run_obs, bti_obs, login_obs, op>>

\* The try/except of back_to_index() around a body that did o; s2 is the
\* scene the next recog.update finds.
BtiHandle(o, s2) ==
    LET ev == IF o.exc = "RecognizeError" THEN o.ev \o sleep("3").ev ELSE o.ev
        sc == IF o.upd \/ o.exc = "RecognizeError" THEN s2 ELSE scene
    IN  /\ bti' = BtiTry(bti, o.exc)
        /\ emitted' = ev
        /\ scene' = sc
        /\ bti_obs' =
            [BtiObserve(bti_obs, sc) EXCEPT
                !.last = o.exc,
                !.streak = IF o.exc = "RecognizeError" THEN Inc(@) ELSE 0]

\* get_navigation() has no budget left: the while ends and None is returned.
NavGiveUp ==
    /\ bti.pc = "nav"
    /\ nav.retry_times = 0
    /\ nav' = [nav EXCEPT !.retry_times = 0, !.result = FALSE]
    /\ bti' = [bti EXCEPT !.pc = "branch"]
    /\ emitted' = <<>>
    /\ UNCHANGED <<scene, entry, run, login, run_obs, bti_obs, login_obs, op>>

\* NavFound without the test of the scene.
NavFound_AnyScene ==
    /\ bti.pc = "nav"
    /\ nav.retry_times # 0
    /\ nav' = [nav EXCEPT !.retry_times = 0, !.result = TRUE]
    /\ bti' = [bti EXCEPT !.pc = "branch"]
    /\ emitted' = <<>>
    /\ UNCHANGED <<scene, entry, run, login, run_obs, bti_obs, login_obs, op>>

\* if self.scene() == Scene.NAVIGATION_BAR: return True
NavFound ==
    /\ bti.pc = "nav"
    /\ nav.retry_times # 0
    /\ scene = NAVIGATION_BAR
    /\ nav' = [nav EXCEPT !.retry_times = 0, !.result = TRUE]
    /\ bti' = [bti EXCEPT !.pc = "branch"]
    /\ emitted' = <<>>
    /\ UNCHANGED <<scene, entry, run, login, run_obs, bti_obs, login_obs, op>>

\* elif not self.tap_element('nav_button', detected=True): return False
\* retry_times -= 1
NavTap ==
    /\ bti.pc = "nav"
    /\ nav.retry_times # 0
    /\ scene # NAVIGATION_BAR
    /\ \E r \in FindResults, s2 \in Scenes :
          CASE r = "none" ->
                  /\ nav' = [nav EXCEPT !.retry_times = 0, !.result = FALSE]
                  /\ bti' = [bti EXCEPT !.pc = "branch"]
                  /\ emitted' = <<>>
                  /\ UNCHANGED <<scene, bti_obs>>
            [] r = "error" ->
                  /\ BtiHandle(Out("Exception", <<>>, FALSE), s2)
                  /\ nav' = NavIdle
            [] OTHER ->
                  /\ nav' = [nav EXCEPT !.retry_times = @ - 1, !.taps = Inc(@)]
                  /\ emitted' = tap(r, "nav_button").ev
                  /\ scene' = s2
                  /\ bti_obs' = BtiObserve(bti_obs, s2)
                  /\ UNCHANGED bti
    /\ UNCHANGED <<entry, run, login, run_obs, login_obs, op>>

\* The branch of the try that the scene selects, and the except clauses.
BtiBranch ==
    /\ bti.pc = "branch"
    /\ ~BtiDelegatesLogin(scene, nav.result)
    /\ \E r \in Asked(BtiQueries(scene, nav.result), 1), s2 \in Scenes :
          BtiHandle(BtiBody(scene, nav.result, r), s2)
    /\ nav' = NavIdle
    /\ UNCHANGED <<entry, run, login, run_obs, login_obs, op>>

\* BtiCallLogin with login() going on with what is left of the budget of
\* back_to_index().
BtiCallLogin_SharedBudget ==
    /\ bti.pc = "branch"
    /\ BtiDelegatesLogin(scene, nav.result)
    /\ bti' = [bti EXCEPT !.pc = "login"]
    /\ login' = [pc |-> "loop", retry_times |-> bti.retry_times, result |-> "none",
                 caller |-> "back_to_index"]
    /\ login_obs' = [LoginObs0 EXCEPT !.script = IF scene = LOGIN_MAIN THEN 1 ELSE 0]
    /\ nav' = NavIdle
    /\ emitted' = <<>>
    /\ UNCHANGED <<scene, entry, run, run_obs, bti_obs, op>>

\* elif self.scene() // 100 == 1: self.login()
BtiCallLogin ==
    /\ bti.pc = "branch"
    /\ BtiDelegatesLogin(scene, nav.result)
    /\ bti' = [bti EXCEPT !.pc = "login"]
    /\ login' = [pc |-> "loop", retry_times |-> MAX_RETRYTIME, result |-> "none",
                 caller |-> "back_to_index"]
    /\ login_obs' = [LoginObs0 EXCEPT !.script = IF scene = LOGIN_MAIN THEN 1 ELSE 0]
    /\ nav' = NavIdle
    /\ emitted' = <<>>
    /\ UNCHANGED <<scene, entry, run, run_obs, bti_obs, op>>

\* login() is over: it returned, or what it raised goes through the excepts.
BtiAfterLogin ==
    /\ bti.pc = "login"
    /\ login.pc = "done"
    /\ login.caller = "back_to_index"
    /\ BtiHandle(Out(IF login.result = "returned" THEN "none" ELSE login.result,
                     <<>>, FALSE), scene)
    /\ login' = Idle
    /\ UNCHANGED <<entry, run, nav, run_obs, login_obs, op>>

NextRun ==
    \/ CallRun
    \/ RunExhausted
    \/ RunCallTransition
    \/ TransitionAbstract

NextLogin ==
    \/ CallLogin
    \/ LoginExit
    \/ LoginAttempt

NextBti ==
    \/ CallBackToIndex
    \/ BtiExit
    \/ BtiEnter
    \/ NavGiveUp
    \/ NavFound
    \/ NavTap
    \/ BtiBranch
    \/ BtiCallLogin
    \/ BtiAfterLogin

Next == NextRun \/ NextLogin \/ NextBti

Spec == Init /\ [][Next]_vars

\* The solver is one thread that runs on until its operation ends.
FairSpec == Spec /\ WF_vars(Next)

(***************************************************************************)
(* run() over a transition() that goes back to the index: a subclass whose *)
(* transition() calls self.back_to_index() and then returns its flag.      *)
(* back_to_index() lets no RecognizeError out (both its loop and the loop  *)
(* of login() catch it), so the budget of run() stays whole here.          *)
(***************************************************************************)
\* transition(): self.back_to_index()
TransitionCallsBackToIndex ==
    /\ run.pc = "transition"
    /\ bti.pc = "idle"
    /\ bti' = [pc |-> "loop", retry_times |-> MAX_RETRYTIME, result |-> "none",
               caller |-> "transition"]
    /\ bti_obs' = [BtiObs0 EXCEPT !.from_mail = scene = MAIL, !.sawIndex = scene = INDEX]
    /\ emitted' = <<>>
    /\ UNCHANGED <<scene, entry, run, nav, login, run_obs, login_obs, op>>

\* back_to_index() is over: transition() returns its flag, or what
\* back_to_index() raised goes through the except clauses of run().
TransitionAfterBackToIndex ==
    /\ run.pc = "transition"
    /\ bti.pc = "done"
    /\ bti.caller = "transition"
    /\ \E flag \in {"True", "False"} :
          RunHandle(IF bti.result = "returned" THEN flag ELSE bti.result)
    /\ bti' = Idle
    /\ UNCHANGED <<scene, entry, nav, login, bti_obs, login_obs, op>>

NestedNext ==
    \/ CallRun
    \/ RunCallTransition
    \/ TransitionCallsBackToIndex
    \/ TransitionAfterBackToIndex
    \/ BtiExit
    \/ BtiEnter
    \/ NavGiveUp
    \/ NavFound
    \/ NavTap
    \/ BtiBranch
    \/ BtiCallLogin
    \/ BtiAfterLogin
    \/ LoginExit
    \/ LoginAttempt

NestedSpec == Init /\ [][NestedNext]_vars

(***************************************************************************)
(* get_pos(): from a location and anchor weights to a device coordinate.   *)
(* A location is None, a Coordinate (x, y), a Scope of two points or a     *)
(* Rectangle of four; the code tells them apart by len(poly) and by        *)
(* poly[0] being itself a tuple (nested).  The anchor weights are counted  *)
(* in quarters (0, 0.25, 0.5, 0.75, 1): binary fractions, on which the     *)
(* float arithmetic of the code is exact for these coordinates.            *)
(***************************************************************************)
\* The coordinates tried range over -1..MaxCoord.
MaxCoord == 2

\* x_rate = 0.5, y_rate = 0.5, the default anchor weights, in quarters.
DefaultRate == 2

Coords == -1..MaxCoord

Points == Coords \X Coords

Rates == 0..4

None == [isNone |-> TRUE, nested |-> FALSE, pts |-> <<>>]

Coordinate(pt) == [isNone |-> FALSE, nested |-> FALSE, pts |-> pt]

Scope(p0, p1) == [isNone |-> FALSE, nested |-> TRUE, pts |-> <<p0, p1>>]

Rectangle(p0, p1, p2, p3) == [isNone |-> FALSE, nested |-> TRUE, pts |-> <<p0, p1, p2, p3>>]

\* The rectangle of left l, top t, right r, bottom b, its points given in
\* the order top-left, top-right, bottom-right, bottom-left.
TopRightSecond(l, t, r, b) == Rectangle(<<l, t>>, <<r, t>>, <<r, b>>, <<l, b>>)

\* The same rectangle in the order top-left, bottom-left, bottom-right, top-right.
BottomLeftSecond(l, t, r, b) == Rectangle(<<l, t>>, <<l, b>>, <<r, b>>, <<r, t>>)

Locations ==
    {None}
    \cup {Coordinate(pt) : pt \in Points}
    \cup {Scope(p0, p1) : p0 \in Points, p1 \in Points}
    \cup {TopRightSecond(l, t, r, b) :
            l \in Coords, t \in Coords, r \in Coords, b \in Coords}
    \cup {BottomLeftSecond(l, t, r, b) :
            l \in Coords, t \in Coords, r \in Coords, b \in Coords}

\* int() rounding to the floor instead of toward zero.
int_Floor(n, d) == n \div d

\* int(n / d) for d > 0: the fraction is cut off, toward zero.
int(n, d) == IF n >= 0 THEN n \div d ELSE -((-n) \div d)

\* GetPos with the y of a Rectangle weighted over the pairs of its x.
GetPos_SamePairing(poly, x_rate, y_rate) ==
    LET p == poly.pts
    IN  IF poly.isNone
        THEN [exc |-> "RecognizeError", pos |-> <<>>]
        ELSE IF Len(p) = 4
        THEN [exc |-> "none",
              pos |-> << int(p[1][1] * (4 - x_rate) + p[2][1] * (4 - x_rate)
                             + p[3][1] * x_rate + p[4][1] * x_rate, 8),
                         int(p[1][2] * (4 - y_rate) + p[2][2] * (4 - y_rate)
                             + p[3][2] * y_rate + p[4][2] * y_rate, 8) >>]
        ELSE IF Len(p) = 2 /\ poly.nested
        THEN [exc |-> "none",
              pos |-> << int(p[1][1] * (4 - x_rate) + p[2][1] * x_rate, 4),
                         int(p[1][2] * (4 - y_rate) + p[2][2] * y_rate, 4) >>]
        ELSE [exc |-> "none", pos |-> << int(p[1], 1), int(p[2], 1) >>]

\* GetPos taking an absent location for the point (0, 0).
GetPos_NoneIsOrigin(poly, x_rate, y_rate) ==
    LET p == poly.pts
    IN  IF poly.isNone
        THEN [exc |-> "none", pos |-> <<0, 0>>]
        ELSE IF Len(p) = 4
        THEN [exc |-> "none",
              pos |-> << int(p[1][1] * (4 - x_rate) + p[2][1] * (4 - x_rate)
                             + p[3][1] * x_rate + p[4][1] * x_rate, 8),
                         int(p[1][2] * (4 - y_rate) + p[4][2] * (4 - y_rate)
                             + p[2][2] * y_rate + p[3][2] * y_rate, 8) >>]
        ELSE IF Len(p) = 2 /\ poly.nested
        THEN [exc |-> "none",
              pos |-> << int(p[1][1] * (4 - x_rate) + p[2][1] * x_rate, 4),
                         int(p[1][2] * (4 - y_rate) + p[2][2] * y_rate, 4) >>]
        ELSE [exc |-> "none", pos |-> << int(p[1], 1), int(p[2], 1) >>]

\* get_pos(poly, x_rate, y_rate) with the rates in quarters: 1 - rate is
\* 4 - rate, and the sums are over 4 (a Scope) or over 8 (a Rectangle, whose
\* sum the code halves).  poly[i] of the code is p[i + 1].
GetPos(poly, x_rate, y_rate) ==
    LET p == poly.pts
    IN  IF poly.isNone
        THEN [exc |-> "RecognizeError", pos |-> <<>>]
        ELSE IF Len(p) = 4
        THEN [exc |-> "none",
              pos |-> << int(p[1][1] * (4 - x_rate) + p[2][1] * (4 - x_rate)
                             + p[3][1] * x_rate + p[4][1] * x_rate, 8),
                         int(p[1][2] * (4 - y_rate) + p[4][2] * (4 - y_rate)
                             + p[2][2] * y_rate + p[3][2] * y_rate, 8) >>]
        ELSE IF Len(p) = 2 /\ poly.nested
        THEN [exc |-> "none",
              pos |-> << int(p[1][1] * (4 - x_rate) + p[2][1] * x_rate, 4),
                         int(p[1][2] * (4 - y_rate) + p[2][2] * y_rate, 4) >>]
        ELSE [exc |-> "none", pos |-> << int(p[1], 1), int(p[2], 1) >>]

\* get_pos() is about to be called on a location and anchor weights.
GeoInit ==
    /\ scene = UNKNOWN
    /\ entry = "none"
    /\ run = [pc |-> "idle", retry_times |-> 0, result |-> "none"]
    /\ bti = Idle
    /\ nav = NavIdle
    /\ login = Idle
    /\ emitted = <<>>
    /\ run_obs = RunObs0
    /\ bti_obs = BtiObs0
    /\ login_obs = LoginObs0
    /\ \E poly \in Locations, x_rate \in Rates, y_rate \in Rates :
          op = [pc |-> "call", name |-> "get_pos", poly |-> poly,
                x_rate |-> x_rate, y_rate |-> y_rate,
                exc |-> "none", pos |-> <<>>]

\* The call of get_pos(): it returns a coordinate or raises.
GetPosCall ==
    /\ op.pc = "call"
    /\ op.name = "get_pos"
    /\ op' = [op EXCEPT
                !.pc = "done",
                !.exc = GetPos(op.poly, op.x_rate, op.y_rate).exc,
                !.pos = GetPos(op.poly, op.x_rate, op.y_rate).pos]
    /\ UNCHANGED <<scene, entry, run, bti, nav, login, emitted, run_obs, bti_obs,
                   login_obs>>

GeoNext == GetPosCall

GeoSpec == GeoInit /\ [][GeoNext]_vars

(***************************************************************************)
(* The primitive operations with their arguments: sleep, tap,              *)
(* tap_element, input, the swipes and back, each called on its own by a    *)
(* subclass.  An operation gives what it raises, the calls it made on the  *)
(* device, the clock and the recognizer, in order, and what it returns.    *)
(***************************************************************************)
Ev(call, arg) == [call |-> call, arg |-> arg]

Res(exc, ev, ret) == [exc |-> exc, ev |-> ev, ret |-> ret]

\* One statement after another: the second runs only if the first did not
\* raise, and its value is the value of the two.
AndThen(r1, r2) ==
    IF r1.exc # "none" THEN r1 ELSE Res(r2.exc, r1.ev \o r2.ev, r2.ret)

\* Intervals in seconds, as the callers give them: negative, zero, positive.
Intervals == {-1, 0, 1, 3}

Durations == {50, 100, 150}

Starts == {<<0, 0>>, <<10, 20>>}

Movements == {<<0, 200>>, <<0, -200>>, <<200, 0>>, <<-3, 0>>, <<1, 1>>, <<5, -7>>, <<0, 0>>}

PointLists ==
    { <<>>, << <<0, 0>> >>, << <<0, 0>>, <<5, 5>> >>,
      << <<1, 1>>, <<1, 9>>, <<4, 9>> >> }

MovementLists ==
    { <<>>, << <<1, 0>> >>, << <<1, 0>>, <<0, 2>> >>,
      << <<1, 1>>, <<-2, 3>>, <<0, 0>> >> }

\* The locations given to tap and input.
TapLocations ==
    { None, Coordinate(<<1, 2>>), Scope(<<0, 0>>, <<2, 2>>),
      BottomLeftSecond(0, 0, 2, 2) }

\* What the user types at the prompt of input(), character by character.
Texts == { <<>>, <<"a">>, <<" ", "a", "b", " ">>, <<" ">> }

\* sleep(interval, rebuild): time.sleep (which raises ValueError on a
\* negative length), then recog.update(rebuild=rebuild).
Sleep(interval, rebuild) ==
    IF interval < 0
    THEN Res("ValueError", <<>>, "None")
    ELSE Res("none",
             << Ev("time.sleep", interval), Ev("recog.update", rebuild) >>,
             "None")

\* if interval > 0: self.sleep(interval, rebuild)
Settle(interval, rebuild) ==
    IF interval > 0 THEN Sleep(interval, rebuild) ELSE Res("none", <<>>, "None")

\* tap(poly, x_rate, y_rate, interval, rebuild)
Tap(poly, x_rate, y_rate, interval, rebuild) ==
    LET g == GetPos(poly, x_rate, y_rate)
    IN  IF g.exc # "none"
        THEN Res(g.exc, <<>>, "None")
        ELSE AndThen(Res("none", << Ev("device.tap", g.pos) >>, "None"),
                     Settle(interval, rebuild))

\* tap_element(...): found is what recog.nav_button() or find() gave, a
\* location or None, unless it raised (raised).
TapElement(raised, found, x_rate, y_rate, interval, rebuild, detected) ==
    IF raised
    THEN Res("Exception", <<>>, "None")
    ELSE IF detected /\ found.isNone
    THEN Res("none", <<>>, "False")
    ELSE AndThen(Tap(found, x_rate, y_rate, interval, rebuild),
                 Res("none", <<>>, "True"))

RECURSIVE lstrip(_)
lstrip(s) == IF s # <<>> /\ Head(s) = " " THEN lstrip(Tail(s)) ELSE s

RECURSIVE rstrip(_)
rstrip(s) ==
    IF s # <<>> /\ s[Len(s)] = " " THEN rstrip(SubSeq(s, 1, Len(s) - 1)) ELSE s

\* str.strip()
strip(s) == rstrip(lstrip(s))

\* input(referent, input_area): typed is what the user answers the prompt.
Input(referent, input_area, typed) ==
    LET g == GetPos(input_area, DefaultRate, DefaultRate)
    IN  IF g.exc # "none"
        THEN Res(g.exc, <<>>, "None")
        ELSE Res("none",
                 << Ev("device.tap", g.pos), Ev("input", referent),
                    Ev("device.send_text", strip(typed)),
                    Ev("device.tap", <<0, 0>>) >>,
                 "None")

\* Swipe settling on an interval of 0 as well.
Swipe_SettlesAtZero(start, movement, duration, interval, rebuild) ==
    AndThen(Res("none",
                << Ev("device.swipe",
                      [points |-> << start,
                                     <<start[1] + movement[1], start[2] + movement[2]>> >>,
                       duration |-> duration]) >>,
                "None"),
            IF interval >= 0 THEN Sleep(interval, rebuild) ELSE Res("none", <<>>, "None"))

\* swipe(start, movement, duration, interval, rebuild)
Swipe(start, movement, duration, interval, rebuild) ==
    AndThen(Res("none",
                << Ev("device.swipe",
                      [points |-> << start,
                                     <<start[1] + movement[1], start[2] + movement[2]>> >>,
                       duration |-> duration]) >>,
                "None"),
            Settle(interval, rebuild))

\* swipe_seq(points, duration, interval, rebuild)
SwipeSeq(points, duration, interval, rebuild) ==
    AndThen(Res("none",
                << Ev("device.swipe", [points |-> points, duration |-> duration]) >>,
                "None"),
            Settle(interval, rebuild))

\* for move in movements: points.append(points[-1] + move)
RECURSIVE Accumulate(_, _)
Accumulate(points, movements) ==
    IF movements = <<>>
    THEN points
    ELSE Accumulate(
            Append(points, << points[Len(points)][1] + Head(movements)[1],
                              points[Len(points)][2] + Head(movements)[2] >>),
            Tail(movements))

\* swipe_move(start, movements, duration, interval, rebuild)
SwipeMove(start, movements, duration, interval, rebuild) ==
    AndThen(Res("none",
                << Ev("device.swipe",
                      [points |-> Accumulate(<<start>>, movements),
                       duration |-> duration]) >>,
                "None"),
            Settle(interval, rebuild))

abs(n) == IF n < 0 THEN -n ELSE n

\* SwipeNoinertia taking the distance from the x of the movement always.
SwipeNoinertia_DistanceOfX(start, movement, duration, interval, rebuild) ==
    LET dis == abs(movement[1])
        points ==
            IF movement[1] = 0
            THEN << start,
                    <<start[1] + 100, start[2]>>,
                    <<start[1] + 100, start[2] + movement[2]>>,
                    <<start[1], start[2] + movement[2]>> >>
            ELSE << start,
                    <<start[1], start[2] + 100>>,
                    <<start[1] + movement[1], start[2] + 100>>,
                    <<start[1] + movement[1], start[2]>> >>
    IN  AndThen(Res("none",
                    << Ev("minitouch.smooth_swipe",
                          [points |-> points,
                           duration |-> <<200, (dis * duration) \div 100, 200>>,
                           up_wait |-> 500]) >>,
                    "None"),
                Settle(interval, rebuild))

\* swipe_noinertia(start, movement, duration, interval, rebuild): movement[0]
\* and movement[1] of the code are movement[1] and movement[2].
SwipeNoinertia(start, movement, duration, interval, rebuild) ==
    LET dis == IF movement[1] = 0 THEN abs(movement[2]) ELSE abs(movement[1])
        points ==
            IF movement[1] = 0
            THEN << start,
                    <<start[1] + 100, start[2]>>,
                    <<start[1] + 100, start[2] + movement[2]>>,
                    <<start[1], start[2] + movement[2]>> >>
            ELSE << start,
                    <<start[1], start[2] + 100>>,
                    <<start[1] + movement[1], start[2] + 100>>,
                    <<start[1] + movement[1], start[2]>> >>
    IN  AndThen(Res("none",
                    << Ev("minitouch.smooth_swipe",
                          [points |-> points,
                           duration |-> <<200, (dis * duration) \div 100, 200>>,
                           up_wait |-> 500]) >>,
                    "None"),
                Settle(interval, rebuild))

\* back(interval, rebuild): the key event, then sleep whatever the interval.
Back(interval, rebuild) ==
    AndThen(Res("none", << Ev("device.send_keyevent", "KEYCODE_BACK") >>, "None"),
            Sleep(interval, rebuild))

\* Whether recog.update is among the calls.
Updated(ev) == \E i \in DOMAIN ev : ev[i].call = "recog.update"

\* The operation name, called with arg, did res: the scene is what the
\* recog.update it made, if any, finds.
OpDone(name, arg, res) ==
    /\ op' = [pc |-> "done", name |-> name, arg |-> arg,
              exc |-> res.exc, ev |-> res.ev, ret |-> res.ret]
    /\ scene' \in IF Updated(res.ev) THEN Scenes ELSE {scene}
    /\ UNCHANGED <<entry, run, bti, nav, login, emitted, run_obs, bti_obs, login_obs>>

OpGetPos ==
    /\ op.pc = "idle"
    /\ \E poly \in TapLocations, x_rate \in Rates, y_rate \in Rates :
          OpDone("get_pos", [poly |-> poly, x_rate |-> x_rate, y_rate |-> y_rate],
                 Res(GetPos(poly, x_rate, y_rate).exc, <<>>,
                     GetPos(poly, x_rate, y_rate).pos))

OpSleep ==
    /\ op.pc = "idle"
    /\ \E interval \in Intervals, rebuild \in BOOLEAN :
          OpDone("sleep", [interval |-> interval, rebuild |-> rebuild],
                 Sleep(interval, rebuild))

OpTap ==
    /\ op.pc = "idle"
    /\ \E poly \in TapLocations, x_rate \in Rates, y_rate \in Rates,
          interval \in Intervals, rebuild \in BOOLEAN :
          OpDone("tap",
                 [poly |-> poly, x_rate |-> x_rate, y_rate |-> y_rate,
                  interval |-> interval, rebuild |-> rebuild],
                 Tap(poly, x_rate, y_rate, interval, rebuild))

OpTapElement ==
    /\ op.pc = "idle"
    /\ \E raised \in BOOLEAN, found \in TapLocations, x_rate \in Rates,
          y_rate \in Rates, interval \in Intervals, rebuild \in BOOLEAN,
          detected \in BOOLEAN :
          /\ raised => found = None
          /\ OpDone("tap_element",
                    [raised |-> raised, poly |-> found, x_rate |-> x_rate,
                     y_rate |-> y_rate, interval |-> interval,
                     rebuild |-> rebuild, detected |-> detected],
                    TapElement(raised, found, x_rate, y_rate, interval, rebuild,
                               detected))

OpInput ==
    /\ op.pc = "idle"
    /\ \E input_area \in TapLocations, typed \in Texts :
          OpDone("input", [poly |-> input_area, typed |-> typed],
                 Input("referent", input_area, typed))

OpSwipe ==
    /\ op.pc = "idle"
    /\ \E start \in Starts, movement \in Movements, duration \in Durations,
          interval \in Intervals, rebuild \in BOOLEAN :
          OpDone("swipe",
                 [start |-> start, movement |-> movement, duration |-> duration,
                  interval |-> interval, rebuild |-> rebuild],
                 Swipe(start, movement, duration, interval, rebuild))

OpSwipeSeq ==
    /\ op.pc = "idle"
    /\ \E points \in PointLists, duration \in Durations,
          interval \in Intervals, rebuild \in BOOLEAN :
          OpDone("swipe_seq",
                 [points |-> points, duration |-> duration,
                  interval |-> interval, rebuild |-> rebuild],
                 SwipeSeq(points, duration, interval, rebuild))

OpSwipeMove ==
    /\ op.pc = "idle"
    /\ \E start \in Starts, movements \in MovementLists, duration \in Durations,
          interval \in Intervals, rebuild \in BOOLEAN :
          OpDone("swipe_move",
                 [start |-> start, movements |-> movements, duration |-> duration,
                  interval |-> interval, rebuild |-> rebuild],
                 SwipeMove(start, movements, duration, interval, rebuild))

OpSwipeNoinertia ==
    /\ op.pc = "idle"
    /\ \E start \in Starts, movement \in Movements, duration \in Durations,
          interval \in Intervals, rebuild \in BOOLEAN :
          OpDone("swipe_noinertia",
                 [start |-> start, movement |-> movement, duration |-> duration,
                  interval |-> interval, rebuild |-> rebuild],
                 SwipeNoinertia(start, movement, duration, interval, rebuild))

OpBack ==
    /\ op.pc = "idle"
    /\ \E interval \in Intervals, rebuild \in BOOLEAN :
          OpDone("back", [interval |-> interval, rebuild |-> rebuild],
                 Back(interval, rebuild))

\* The operation has returned or raised to the subclass that called it.
OpReturn ==
    /\ op.pc = "done"
    /\ op' = OpIdle
    /\ UNCHANGED <<scene, entry, run, bti, nav, login, emitted, run_obs, bti_obs,
                   login_obs>>

OpsNext ==
    \/ OpGetPos
    \/ OpSleep
    \/ OpTap
    \/ OpTapElement
    \/ OpInput
    \/ OpSwipe
    \/ OpSwipeSeq
    \/ OpSwipeMove
    \/ OpSwipeNoinertia
    \/ OpBack
    \/ OpReturn

OpsSpec == Init /\ [][OpsNext]_vars

(***************************************************************************)
(* The retry loop of run()                                                 *)
(***************************************************************************)
\* Every call of transition() made so far has raised RecognizeError (the
\* counters are exact below MaxCount).
OnlyRecognizeErrors ==
    /\ run.pc \in {"loop", "done"}
    /\ run_obs.calls < MaxCount
    /\ run_obs.nRE = run_obs.calls

\* C1: with a transition() that raises RecognizeError on every call, run()
\* never calls it more than MAX_RETRYTIME times; after the MAX_RETRYTIME-th
\* call the budget is 0, so the loop stops, and run() has then returned
\* to its caller without raising.
C1_ExhaustedAfterBudget ==
    OnlyRecognizeErrors =>
        /\ run_obs.calls <= MAX_RETRYTIME
        /\ run.retry_times = MAX_RETRYTIME - run_obs.calls
        /\ run.pc = "done" =>
                run_obs.calls = MAX_RETRYTIME /\ run.result = "returned"

C1_Witness ==
    /\ OnlyRecognizeErrors
    /\ run.pc = "done"
    /\ run_obs.calls = MAX_RETRYTIME
    /\ run.result = "returned"

\* transition() raised RecognizeError exactly N < MAX_RETRYTIME times and
\* then returned a truthy flag: N is run_obs.nRE.
FailedNThenCompleted ==
    /\ run.pc = "done"
    /\ run_obs.last = "True"
    /\ run_obs.nRE < MAX_RETRYTIME
    /\ run_obs.calls = run_obs.nRE + 1

\* C2 as stated: after N RecognizeErrors and a truthy flag, run() has
\* completed and the remaining budget equals MAX_RETRYTIME when the loop ends.
C2_Original ==
    FailedNThenCompleted =>
        run.result = "returned" /\ run.retry_times = MAX_RETRYTIME

\* C2 as amended: after N RecognizeErrors and a truthy flag, run() has
\* completed without raising and exactly N units of the budget are used up:
\* the break skips the reset, so MAX_RETRYTIME - N units remain.
C2_CompletedAfterN ==
    FailedNThenCompleted =>
        /\ run.result = "returned"
        /\ run.retry_times = MAX_RETRYTIME - run_obs.nRE

C2_Witness ==
    /\ FailedNThenCompleted
    /\ run_obs.nRE = MAX_RETRYTIME - 1
    /\ run.retry_times = 1
    /\ run.result = "returned"

\* C3: when transition() raises StrategyError, run() ends in that step by
\* returning to its caller (nothing is raised), the budget is left as it
\* was, no sleep and no recog.update is made, and transition() is not
\* called again: run() once over stays over.
C3_StrategyErrorAborts ==
    /\ [][(run.pc = "transition" /\ run_obs'.last = "StrategyError") =>
            /\ run'.pc = "done"
            /\ run'.result = "returned"
            /\ run'.retry_times = run.retry_times
            /\ emitted' = <<>>]_vars
    /\ [][run.pc = "done" => (run' = run /\ run_obs' = run_obs)]_vars

C3_Witness ==
    /\ run.pc = "done"
    /\ run_obs.last = "StrategyError"
    /\ run.result = "returned"
    /\ run.retry_times = MAX_RETRYTIME - 1

(***************************************************************************)
(* The three retry loops                                                   *)
(***************************************************************************)
\* What a body may raise that run() retries or swallows, and what the
\* loops of login() and back_to_index() retry.
RunHandled == {"fresh", "True", "False", "RecognizeError", "StrategyError"}

LoopHandled == {"fresh", "none", "RecognizeError"}

\* C4: in run(), login() and back_to_index(), the step in which the body
\* raises anything but RecognizeError (and, in run(), StrategyError) ends
\* the procedure with that very exception raised to the caller, and leaves
\* the budget as it was: no retry, no further call of the body.
C4_OtherExceptionsPropagate ==
    /\ [][(run.pc = "transition" /\ run_obs'.last \notin RunHandled) =>
            /\ run'.pc = "done"
            /\ run'.result = run_obs'.last
            /\ run'.retry_times = run.retry_times
            /\ emitted' = <<>>]_vars
    /\ [][(login.pc = "loop" /\ login_obs'.last \notin LoopHandled) =>
            /\ login'.pc = "done"
            /\ login'.result = login_obs'.last
            /\ login'.retry_times = login.retry_times]_vars
    /\ [][(bti.pc \in {"nav", "branch", "login"}
            /\ bti_obs'.last \notin LoopHandled) =>
            /\ bti'.pc = "done"
            /\ bti'.result = bti_obs'.last
            /\ bti'.retry_times = bti.retry_times]_vars
    /\ [][(login.pc = "done" /\ login'.pc # "idle") => login' = login]_vars
    /\ [][bti.pc = "done" => bti' = bti]_vars

\* back_to_index() has ended by the TypeError of its mail branch, raised
\* after an earlier pass had cost one unit of the budget.
C4_Witness ==
    /\ bti.pc = "done"
    /\ bti.result = "TypeError"
    /\ bti_obs.last = "TypeError"
    /\ bti.retry_times = MAX_RETRYTIME - 1

\* C5: in each loop, while it runs, the budget is MAX_RETRYTIME less the
\* number of passes that have just raised RecognizeError in a row (so it
\* stays in 0..MAX_RETRYTIME, goes down by one with each such pass and is
\* back at MAX_RETRYTIME after a pass that raised nothing and did not
\* complete), and a loop that has ended with a budget of 0 has just had
\* MAX_RETRYTIME such passes in a row.
C5_BudgetTracksConsecutiveFailures ==
    /\ run.retry_times \in 0..MAX_RETRYTIME
    /\ login.retry_times \in 0..MAX_RETRYTIME
    /\ bti.retry_times \in 0..MAX_RETRYTIME
    /\ run.pc \in {"loop", "transition"} =>
            run.retry_times = MAX_RETRYTIME - run_obs.streak
    /\ login.pc = "loop" =>
            login.retry_times = MAX_RETRYTIME - login_obs.streak
    /\ bti.pc \in {"loop", "nav", "branch", "login"} =>
            bti.retry_times = MAX_RETRYTIME - bti_obs.streak
    /\ (run.pc = "done" /\ run.retry_times = 0) =>
            run_obs.streak = MAX_RETRYTIME
    /\ (login.pc = "done" /\ login.retry_times = 0) =>
            login_obs.streak = MAX_RETRYTIME
    /\ (bti.pc = "done" /\ bti.retry_times = 0) =>
            bti_obs.streak = MAX_RETRYTIME

\* transition() has raised RecognizeError MAX_RETRYTIME + 1 times in all,
\* with a pass that raised nothing in between, and run() is still running.
C5_Witness ==
    /\ run.pc = "loop"
    /\ run_obs.nRE = MAX_RETRYTIME + 1
    /\ run_obs.calls = MAX_RETRYTIME + 2
    /\ run.retry_times = MAX_RETRYTIME - 1

(***************************************************************************)
(* back_to_index()                                                         *)
(***************************************************************************)
\* back_to_index() has just been invoked at the mail overlay.
InvokedAtMail ==
    /\ bti.pc = "loop"
    /\ bti_obs.last = "fresh"
    /\ bti_obs.from_mail
    /\ scene = MAIL

\* back_to_index() has ended by the StrategyError of its own final check,
\* after MAX_RETRYTIME passes in a row that raised RecognizeError.
RaisedAfterBudget ==
    /\ bti.pc = "done"
    /\ bti.result = "StrategyError"
    /\ bti_obs.last = "RecognizeError"
    /\ bti.retry_times = 0
    /\ bti_obs.streak = MAX_RETRYTIME

\* The perception of the scenario has failed: a collaborator raised an
\* exception of its own, or the mail element was not found.
PerceptionFailed ==
    bti.pc = "done" /\ bti.result \in {"Exception", "TypeError"}

\* C6 as stated, for the perception that goes on reporting the mail overlay
\* (so never the index) and finds what it is asked for: back_to_index()
\* invoked at the mail overlay comes to an end by raising StrategyError
\* after exactly MAX_RETRYTIME retries.
C6_Original ==
    InvokedAtMail ~> (RaisedAfterBudget \/ scene # MAIL \/ PerceptionFailed)

\* C6 as amended: back_to_index() invoked at the mail overlay, with
\* perception never reporting the index, has not returned normally when it
\* is over; and if what ended it was not an exception of its body, it is
\* the StrategyError of its final check, raised with a budget of 0 after
\* exactly MAX_RETRYTIME passes in a row that raised RecognizeError.
C6_NeverReturnsRaisesOnlyAfterBudget ==
    (bti.pc = "done" /\ bti_obs.from_mail /\ ~bti_obs.sawIndex) =>
        /\ bti.result # "returned"
        /\ bti_obs.last # bti.result => RaisedAfterBudget

C6_Witness ==
    /\ bti_obs.from_mail
    /\ ~bti_obs.sawIndex
    /\ RaisedAfterBudget

\* C7: back_to_index() at its loop test with the scene already the index
\* (as it is when invoked there, the budget then MAX_RETRYTIME) returns
\* normally in its next step, which makes no device call, no sleep and no
\* recog.update, and leaves budget and scene as they are.
C7_AtIndexReturnsAtOnce ==
    /\ [][(bti.pc = "loop" /\ scene = INDEX) =>
            /\ bti'.pc = "done"
            /\ bti'.result = "returned"
            /\ bti'.retry_times = bti.retry_times
            /\ emitted' = <<>>
            /\ scene' = scene]_vars
    /\ [][(bti.pc = "idle" /\ bti'.pc # "idle") =>
            /\ bti'.pc = "loop"
            /\ bti'.retry_times = MAX_RETRYTIME
            /\ emitted' = <<>>
            /\ scene' = scene]_vars

\* back_to_index() was invoked at the index and has returned without a pass.
C7_Witness ==
    /\ bti.pc = "done"
    /\ bti_obs.last = "fresh"
    /\ bti_obs.sawIndex
    /\ scene = INDEX
    /\ bti.result = "returned"
    /\ bti.retry_times = MAX_RETRYTIME
    /\ emitted = <<>>

\* C8: back_to_index() has returned normally only with the scene the index;
\* over with a budget of 0 and another scene, it has raised StrategyError.
C8_ReturnsOnlyAtIndex ==
    bti.pc = "done" =>
        /\ bti.result = "returned" => scene = INDEX
        /\ (bti.retry_times = 0 /\ scene # INDEX) => bti.result = "StrategyError"

C8_Witness ==
    /\ bti.pc = "done"
    /\ bti.retry_times = 0
    /\ scene = MAIL
    /\ bti.result = "StrategyError"

(***************************************************************************)
(* login()                                                                 *)
(***************************************************************************)
\* The logged-in predicate as the claim words it.
LoggedIn == scene \div 100 # 1 /\ scene \div 100 # 99 /\ scene # -1

\* C9: login() has returned normally only with the logged-in predicate
\* true; over with a budget of 0 and the predicate false, it has raised
\* StrategyError, after MAX_RETRYTIME passes in a row that raised
\* RecognizeError.
C9_ReturnsOnlyLoggedIn ==
    login.pc = "done" =>
        /\ login.result = "returned" => LoggedIn
        /\ (login.retry_times = 0 /\ ~LoggedIn) =>
                /\ login.result = "StrategyError"
                /\ login_obs.streak = MAX_RETRYTIME

C9_Witness ==
    /\ login.pc = "done"
    /\ login.retry_times = 0
    /\ scene = LOADING
    /\ login.result = "StrategyError"
    /\ login_obs.streak = MAX_RETRYTIME

\* What the pass at login-input makes of the device when both fields and
\* the button are found.
InputPass ==
    << <<"tap", "login_username">>, <<"send_text", "username">>, <<"tap", "(0,0)">>,
       <<"tap", "login_password">>, <<"send_text", "password">>, <<"tap", "(0,0)">>,
       <<"tap", "login_button">>, <<"sleep", "1">>, <<"update", "rebuild">> >>

\* C10: login() following the script login-main, login-input,
\* login-announce, logged in, with every element found: no text is sent
\* before the pass at login-input; that pass sends the username once, then
\* the password once, then taps the button; nothing more is sent after it;
\* and with the logged-in scene perceived the loop is left and login()
\* returns without raising.
C10_ScriptedLogin ==
    /\ login_obs.script \in {1, 2} => (login_obs.nUser = 0 /\ login_obs.nPwd = 0)
    /\ login_obs.script = 3 => emitted = InputPass
    /\ login_obs.script \in {3, 4} => (login_obs.nUser = 1 /\ login_obs.nPwd = 1)
    /\ (login_obs.script = 4 /\ login.pc = "loop") => ~LoginLoopCond(login, scene)
    /\ (login_obs.script = 4 /\ login.pc = "done") => login.result = "returned"
    /\ (login_obs.script # 0 /\ login.pc = "done") => login_obs.script = 4

C10_Witness ==
    /\ login_obs.script = 4
    /\ login.pc = "done"
    /\ login.result = "returned"
    /\ login_obs.nUser = 1
    /\ login_obs.nPwd = 1

(***************************************************************************)
(* get_pos()                                                               *)
(***************************************************************************)
\* v is n / d (d > 0) with the fraction cut off toward zero.
Truncated(v, n, d) ==
    IF n >= 0
    THEN d * v <= n /\ n < d * v + d
    ELSE d * v >= n /\ n > d * v - d

\* get_pos() has been called on a Scope with x_rate = y_rate = 0.5.
ScopeAtHalf ==
    /\ op.pc = "done"
    /\ op.name = "get_pos"
    /\ ~op.poly.isNone
    /\ op.poly.nested
    /\ Len(op.poly.pts) = 2
    /\ op.x_rate = DefaultRate
    /\ op.y_rate = DefaultRate

\* C17 as stated: get_pos() on a Scope with x_rate = y_rate = 0.5 returns
\* exactly the midpoint of the two corners on each axis.
C17_Original ==
    ScopeAtHalf =>
        /\ op.exc = "none"
        /\ \A k \in {1, 2} : 2 * op.pos[k] = op.poly.pts[1][k] + op.poly.pts[2][k]

\* C17 as amended: get_pos() on a Scope with x_rate = y_rate = 0.5 returns,
\* on each axis, the midpoint of the two corners with its fraction cut off
\* toward zero: the midpoint itself when the two coordinates add up to an
\* even number, and the integer next to it toward zero when they do not.
C17_MidpointTruncated ==
    ScopeAtHalf =>
        /\ op.exc = "none"
        /\ \A k \in {1, 2} :
              LET sum == op.poly.pts[1][k] + op.poly.pts[2][k]
              IN  /\ Truncated(op.pos[k], sum, 2)
                  /\ sum % 2 = 0 => 2 * op.pos[k] = sum

\* The corners -1 and 0 on x (midpoint -0.5) and 0 and 1 on y (midpoint 0.5).
C17_Witness ==
    /\ ScopeAtHalf
    /\ op.poly = Scope(<<-1, 0>>, <<0, 1>>)
    /\ op.pos = <<0, 0>>

\* get_pos() has been called on four points: the edges of the rectangle
\* whose top-left corner is the first point and whose bottom-right corner
\* is the third.
Left == op.poly.pts[1][1]

Top == op.poly.pts[1][2]

Right == op.poly.pts[3][1]

Bottom == op.poly.pts[3][2]

CalledOnFour ==
    /\ op.pc = "done"
    /\ op.name = "get_pos"
    /\ Len(op.poly.pts) = 4

\* ... on an axis-aligned rectangle in the order top-left, top-right,
\* bottom-right, bottom-left.
CalledOnTopRightSecond ==
    /\ CalledOnFour
    /\ Left <= Right
    /\ Top <= Bottom
    /\ op.poly = TopRightSecond(Left, Top, Right, Bottom)

\* ... on an axis-aligned rectangle in the order top-left, bottom-left,
\* bottom-right, top-right.
CalledOnBottomLeftSecond ==
    /\ CalledOnFour
    /\ Left <= Right
    /\ Top <= Bottom
    /\ op.poly = BottomLeftSecond(Left, Top, Right, Bottom)

\* C18 as stated: on an axis-aligned rectangle given in the order top-left,
\* top-right, bottom-right, bottom-left, the x get_pos() returns is the
\* blend of the left and right edges weighted by x_rate (the left edge at
\* 0, the right edge at 1), the y the blend of the top and bottom edges
\* weighted by y_rate; at (0.5, 0.5) it is the centroid within one pixel.
C18_Original ==
    CalledOnTopRightSecond =>
        /\ op.exc = "none"
        /\ Truncated(op.pos[1], Left * (4 - op.x_rate) + Right * op.x_rate, 4)
        /\ Truncated(op.pos[2], Top * (4 - op.y_rate) + Bottom * op.y_rate, 4)

\* C18 as amended: on an axis-aligned rectangle given in the order top-left,
\* top-right, bottom-right, bottom-left, get_pos() returns the centroid
\* (cut off toward zero, so within one pixel) whatever x_rate and y_rate
\* are; the blend of the left and right edges weighted by x_rate and of the
\* top and bottom edges weighted by y_rate is what it returns when the
\* points are given in the order top-left, bottom-left, bottom-right,
\* top-right.
C18_RatesNeedBottomLeftSecond ==
    /\ CalledOnTopRightSecond =>
        /\ op.exc = "none"
        /\ Truncated(op.pos[1], Left + Right, 2)
        /\ Truncated(op.pos[2], Top + Bottom, 2)
    /\ CalledOnBottomLeftSecond =>
        /\ op.exc = "none"
        /\ Truncated(op.pos[1], Left * (4 - op.x_rate) + Right * op.x_rate, 4)
        /\ Truncated(op.pos[2], Top * (4 - op.y_rate) + Bottom * op.y_rate, 4)

\* The rectangle from (0, 0) to (2, 2) in the first order, asked for its
\* left edge and its bottom edge: the centre comes back.
C18_Witness ==
    /\ CalledOnTopRightSecond
    /\ op.poly = TopRightSecond(0, 0, 2, 2)
    /\ op.x_rate = 0
    /\ op.y_rate = 4
    /\ op.pos = <<1, 1>>

(***************************************************************************)
(* The primitive operations                                                *)
(***************************************************************************)
Gestures == {"tap", "swipe", "swipe_seq", "swipe_move", "swipe_noinertia"}

DeviceCalls ==
    { "device.tap", "device.swipe", "minitouch.smooth_swipe", "device.send_text",
      "device.send_keyevent" }

\* C12: a gesture operation (tap, swipe, swipe_seq, swipe_move,
\* swipe_noinertia) that has made its device call has made it first; called
\* with interval > 0 it has then slept for the interval and made one
\* recog.update, with the rebuild flag it was given, before returning;
\* called with interval <= 0 it has made the device call and nothing else.
\* The one gesture that makes no device call is the tap of an absent
\* location, which raises.
C12_GestureSettles ==
    (op.pc = "done" /\ op.name \in Gestures) =>
        IF op.exc = "none"
        THEN /\ Len(op.ev) >= 1
             /\ op.ev[1].call \in DeviceCalls
             /\ op.arg.interval > 0 =>
                    /\ Len(op.ev) = 3
                    /\ op.ev[2].call = "time.sleep"
                    /\ op.ev[2].arg = op.arg.interval
                    /\ op.ev[3].call = "recog.update"
                    /\ op.ev[3].arg = op.arg.rebuild
             /\ op.arg.interval <= 0 => Len(op.ev) = 1
        ELSE op.name = "tap" /\ op.arg.poly.isNone /\ Len(op.ev) = 0

C12_Witness ==
    /\ op.pc = "done"
    /\ op.name = "swipe_noinertia"
    /\ op.arg.interval = 3
    /\ ~op.arg.rebuild
    /\ Len(op.ev) = 3
    /\ op.ev[1].call = "minitouch.smooth_swipe"
    /\ op.ev[3].call = "recog.update"

\* swipe_noinertia() has been called with a purely vertical movement of
\* magnitude 200 and a duration of 100.
Vertical200 ==
    /\ op.pc = "done"
    /\ op.name = "swipe_noinertia"
    /\ op.arg.movement[1] = 0
    /\ op.arg.movement[2] \in {200, -200}
    /\ op.arg.duration = 100

\* The path given to the device is the start, the start moved 100 aside on
\* x, that point moved by the movement, and the start moved by the movement.
FourPointDetour ==
    LET pts == op.ev[1].arg.points
        start == op.arg.start
        dy == op.arg.movement[2]
    IN  /\ Len(pts) = 4
        /\ pts[1] = start
        /\ pts[2] = <<start[1] + 100, start[2]>>
        /\ pts[3] = <<start[1] + 100, start[2] + dy>>
        /\ pts[4] = <<start[1], start[2] + dy>>

\* C14 as stated: swipe_noinertia with a purely vertical movement of
\* magnitude 200 and duration 100 gives the device a 4-point path whose
\* middle leg has duration 400 and whose two perpendicular legs have 200 each.
C14_Original ==
    Vertical200 =>
        /\ op.ev[1].call = "minitouch.smooth_swipe"
        /\ FourPointDetour
        /\ op.ev[1].arg.duration = <<200, 400, 200>>

\* C14 as amended: swipe_noinertia with a purely vertical movement of
\* magnitude 200 and duration 100 gives the device a 4-point path whose
\* middle leg has duration 200 (200 * 100 // 100) and whose two
\* perpendicular legs have 200 each.
C14_MiddleLegIs200 ==
    Vertical200 =>
        /\ op.exc = "none"
        /\ op.ev[1].call = "minitouch.smooth_swipe"
        /\ FourPointDetour
        /\ op.ev[1].arg.duration = <<200, 200, 200>>

C14_Witness ==
    /\ Vertical200
    /\ op.arg.start = <<10, 20>>
    /\ op.arg.movement = <<0, -200>>
    /\ op.ev[1].arg.points = << <<10, 20>>, <<110, 20>>, <<110, -180>>, <<10, -180>> >>
    /\ op.ev[1].arg.duration[2] = 200

\* C15: swipe_noinertia called with a movement whose two components are
\* both non-zero is rejected: it raises, and nothing is sent to the device.
C15_Original ==
    (/\ op.pc = "done"
     /\ op.name = "swipe_noinertia"
     /\ op.arg.movement[1] # 0
     /\ op.arg.movement[2] # 0) =>
        /\ op.exc # "none"
        /\ Len(op.ev) = 0

\* get_pos, tap or tap_element (detected=False, the query not raising) has
\* been called on an absent location.
CalledOnNone ==
    /\ op.pc = "done"
    /\ op.name \in {"get_pos", "tap", "tap_element"}
    /\ op.arg.poly.isNone
    /\ op.name = "tap_element" => (~op.arg.raised /\ ~op.arg.detected)

\* C16: get_pos on an absent location raises RecognizeError whatever the
\* anchor weights; tap, and tap_element with detected=False, on an element
\* that was not found raise RecognizeError having made no device call, no
\* sleep and no recog.update.
C16_AbsentLocationRaises ==
    CalledOnNone =>
        /\ op.exc = "RecognizeError"
        /\ Len(op.ev) = 0

C16_Witness ==
    /\ CalledOnNone
    /\ op.name = "tap_element"
    /\ op.arg.x_rate = 0
    /\ op.arg.y_rate = 4
    /\ op.arg.interval = 1
    /\ op.exc = "RecognizeError"

(***************************************************************************)
(* Settling and refreshing in login() and back_to_index()                  *)
(***************************************************************************)
\* The calls on the device, among the calls of a step.
IsDeviceCall(e) == e[1] \in {"tap", "send_text"}

\* C11: between any two device actions made one after the other there is a
\* recog.update: no device action is made before the settle of the one
\* before it is over.
C11_Original ==
    \A i \in DOMAIN emitted, j \in DOMAIN emitted :
        (i < j /\ IsDeviceCall(emitted[i]) /\ IsDeviceCall(emitted[j])) =>
            \E k \in (i + 1)..(j - 1) : emitted[k][1] = "update"

\* The calls end with the sleep(3) of an except clause: a pause, then recog.update.
EndsRefreshed(ev) ==
    /\ Len(ev) >= 2
    /\ ev[Len(ev) - 1] = <<"sleep", "3">>
    /\ ev[Len(ev)] = <<"update", "rebuild">>

\* C13: in run(), login() and back_to_index(), the step in which an
\* attempt fails with RecognizeError (the one step that takes a unit off
\* the budget) ends with a pause and a recog.update, and leaves the
\* procedure at its loop test: the next attempt, if the budget allows one,
\* is made after them.
C13_RetryAfterRefresh ==
    /\ [][(run.pc = "transition" /\ run'.retry_times = run.retry_times - 1) =>
            /\ run_obs'.last = "RecognizeError"
            /\ EndsRefreshed(emitted')
            /\ run'.pc = "loop"]_vars
    /\ [][(login.pc = "loop" /\ login'.retry_times = login.retry_times - 1) =>
            /\ login_obs'.last = "RecognizeError"
            /\ EndsRefreshed(emitted')
            /\ login'.pc = "loop"]_vars
    /\ [][(bti.pc \in {"nav", "branch", "login"}
            /\ bti'.retry_times = bti.retry_times - 1) =>
            /\ bti_obs'.last = "RecognizeError"
            /\ EndsRefreshed(emitted')
            /\ bti'.pc = "loop"]_vars
    /\ [][(run.pc = "transition" /\ run_obs'.last = "RecognizeError") =>
            run'.retry_times = run.retry_times - 1]_vars
    /\ [][(login.pc = "loop" /\ login_obs'.last = "RecognizeError"
            /\ login_obs'.streak # login_obs.streak) =>
            login'.retry_times = login.retry_times - 1]_vars
    /\ [][(bti_obs'.last = "RecognizeError" /\ bti_obs'.streak # bti_obs.streak) =>
            bti'.retry_times = bti.retry_times - 1]_vars

\* login() at login-input found neither the fields nor the button: the tap
\* of the button raised RecognizeError, and the pass ended refreshed.
C13_Witness ==
    /\ login.pc = "loop"
    /\ login_obs.last = "RecognizeError"
    /\ login.retry_times = MAX_RETRYTIME - 1
    /\ emitted = << <<"sleep", "3">>, <<"update", "rebuild">> >>

(***************************************************************************)
(* get_navigation()                                                        *)
(***************************************************************************)
\* C20: get_navigation() taps the navigation toggle at most MAX_RETRYTIME
\* times, each tap taking one unit off its budget; it returns True only
\* with the scene the navigation bar, in a pass that makes no call; it
\* returns False, in a pass that makes no call, when the toggle is not
\* detected; with its budget used up it ends with a falsy result; and
\* after a falsy result back_to_index() does not tap nav_index but goes by
\* the scene.
C20_NavigationTerminates ==
    /\ [](bti.pc \in {"nav", "branch"} => nav.taps <= MAX_RETRYTIME)
    /\ [](bti.pc = "nav" => nav.taps = MAX_RETRYTIME - nav.retry_times)
    /\ [](bti.pc = "branch" /\ nav.result => scene = NAVIGATION_BAR)
    /\ [][(bti.pc = "nav" /\ bti'.pc = "nav") =>
            /\ nav'.taps = nav.taps + 1
            /\ nav'.retry_times = nav.retry_times - 1
            /\ emitted'[1] = <<"tap", "nav_button">>
            /\ scene # NAVIGATION_BAR]_vars
    /\ [][(bti.pc = "nav" /\ bti'.pc = "branch") =>
            /\ emitted' = <<>>
            /\ scene' = scene
            /\ nav'.taps = nav.taps
            /\ nav'.result = (nav.retry_times # 0 /\ scene = NAVIGATION_BAR)]_vars
    /\ [][(bti.pc = "nav" /\ nav.retry_times = 0) =>
            (bti'.pc = "branch" /\ ~nav'.result)]_vars
    /\ [][(bti.pc = "branch" /\ ~nav.result) =>
            \A i \in DOMAIN emitted' : emitted'[i] # <<"tap", "nav_index">>]_vars

\* The toggle was tapped MAX_RETRYTIME times and the navigation bar did not
\* appear: get_navigation() has ended with a falsy result.
C20_Witness ==
    /\ bti.pc = "branch"
    /\ nav.taps = MAX_RETRYTIME
    /\ ~nav.result
    /\ scene = MAIL

(***************************************************************************)
(* back_to_index() delegating to login(), under run()                      *)
(***************************************************************************)
\* C19: back_to_index(), at its branches after a falsy get_navigation()
\* with a scene of the login band, calls login(); login() starts with a
\* budget of MAX_RETRYTIME whatever is left of the budget of
\* back_to_index(), and what it does leaves that budget alone; when
\* login() has raised StrategyError, back_to_index() ends in its next step
\* with that StrategyError, making no call and with its budget as it was;
\* and run(), whose transition() had called back_to_index(), then returns
\* to its caller without raising.
C19_LoginFailureAbortsRun ==
    /\ [][(bti.pc = "branch" /\ ~nav.result /\ scene \div 100 = 1) =>
            bti'.pc = "login"]_vars
    /\ [][(bti.pc # "login" /\ bti'.pc = "login") =>
            /\ login'.pc = "loop"
            /\ login'.retry_times = MAX_RETRYTIME
            /\ bti'.retry_times = bti.retry_times
            /\ emitted' = <<>>]_vars
    /\ [][(bti.pc = "login" /\ login.pc # "done") => bti' = bti]_vars
    /\ [][(bti.pc = "login" /\ login.pc = "done" /\ login.result = "StrategyError") =>
            /\ bti'.pc = "done"
            /\ bti'.result = "StrategyError"
            /\ bti'.retry_times = bti.retry_times
            /\ emitted' = <<>>
            /\ scene' = scene]_vars
    /\ [][(run.pc = "transition" /\ bti.pc = "done" /\ bti.result = "StrategyError") =>
            /\ run'.pc = "done"
            /\ run'.result = "returned"
            /\ run'.retry_times = run.retry_times
            /\ emitted' = <<>>]_vars
    /\ [][run.pc = "done" => run' = run]_vars

\* back_to_index(), called by transition() with one unit of its budget
\* gone, has been ended by the StrategyError of a login() that used up its
\* own budget of MAX_RETRYTIME.
C19_Witness ==
    /\ run.pc = "transition"
    /\ bti.pc = "done"
    /\ bti.caller = "transition"
    /\ bti.result = "StrategyError"
    /\ bti.retry_times = MAX_RETRYTIME - 1
    /\ bti_obs.last = "StrategyError"
    /\ login_obs.streak = MAX_RETRYTIME

====
